---- MODULE Spec2Model ----
(***************************************************************************)
(* Crawl / filter / normalize / sync pipeline of the Superbid scraper      *)
(* (scrapers/superbid_scraper.py, scrapers/supabase_client.py).            *)
(*                                                                         *)
(* Representation                                                          *)
(*  - A Python str is a sequence of one-character strings; None is the     *)
(*    tuple NoneT and a key that is missing from a dict is AbsentT.        *)
(*  - A nested JSON object is a record with a tag: "obj" (present),        *)
(*    "null" (key present, value null) or "absent" (key missing, so        *)
(*    dict.get(key, {}) yields the empty dict).                            *)
(*  - A Python list of raw offers is kept run-length encoded: a sequence   *)
(*    of groups [o |-> offer, n |-> k] standing for k consecutive equal    *)
(*    entries.  len() is the sum of the n's.                               *)
(*  - Wall-clock time is reduced to one bit, expired: whether              *)
(*    time.time() - start_time has passed MAX_EXECUTION_TIME.              *)
(***************************************************************************)
EXTENDS Integers, Sequences, FiniteSets, TLC

\* ------------------------------------------------------------------------
\* Program constants
\* ------------------------------------------------------------------------
SAVE_CHECKPOINT_EVERY == 1000
PAGE_SIZE == 100
SHORT_PAGE_LIMIT == 10
max_retries == 3
PREVIEW_LEN == 150
RPC_BATCH_SIZE == 500
FALLBACK_BATCH_SIZE == 200

\* ------------------------------------------------------------------------
\* Bounds of the model
\* ------------------------------------------------------------------------
MaxBatches == 3
MaxCalls == 2
NumCategories == 2
MaxPagesArg == 2
LongPages == 21

\* The first slugs of CATEGORIES, in dict order, and their display names.
CATEGORIES ==
    << [slug |-> "carros-motos",     name |-> "Carros & Motos"],
       [slug |-> "caminhoes-onibus", name |-> "Caminhoes & Onibus"],
       [slug |-> "imoveis",          name |-> "Imoveis"],
       [slug |-> "maquinas-pesadas-agricolas", name |-> "Maquinas Pesadas & Agricolas"] >>

\* ------------------------------------------------------------------------
\* Python values
\* ------------------------------------------------------------------------
NoneT == <<"None">>
AbsentT == <<"Absent">>
NoneN == -1
NoId == -1

IsStr(t) == t # NoneT /\ t # AbsentT

\* dict.get(key) on a nested object: a missing key and a null value both read
\* as None; the empty dict (tag "absent") has no keys.
Get(obj, field) ==
    IF obj.tag = "obj" /\ obj[field] # AbsentT THEN obj[field] ELSE NoneT

\* dict.get(key) of a numeric field; NoneN stands for None.
GetNum(obj, field) == IF obj.tag = "obj" THEN obj[field] ELSE NoneN

\* x.get(...) on None raises AttributeError.
GetRaises(obj) == obj.tag = "null"

\* Python truthiness of an optional str.
Truthy(t) == IsStr(t) /\ t # <<>>

\* (t or "")
OrEmpty(t) == IF Truthy(t) THEN t ELSE <<>>

\* (a or b) on optional numbers: None and 0 are falsy.
OrNum(a, b) == IF a # NoneN /\ a # 0 THEN a ELSE b

LowerMap ==
    [A |-> "a", B |-> "b", C |-> "c", D |-> "d", E |-> "e", F |-> "f",
     G |-> "g", H |-> "h", I |-> "i", J |-> "j", K |-> "k", L |-> "l",
     M |-> "m", N |-> "n", O |-> "o", P |-> "p", Q |-> "q", R |-> "r",
     S |-> "s", T |-> "t", U |-> "u", V |-> "v", W |-> "w", X |-> "x",
     Y |-> "y", Z |-> "z"]

\* str.lower()
Lower(s) ==
    [i \in 1..Len(s) |-> IF s[i] \in DOMAIN LowerMap THEN LowerMap[s[i]] ELSE s[i]]

\* (sub in s)
Contains(sub, s) ==
    \E i \in 1..(Len(s) - Len(sub) + 1) : SubSeq(s, i, i + Len(sub) - 1) = sub

RECURSIVE LStrip(_)
LStrip(s) == IF s # <<>> /\ Head(s) = " " THEN LStrip(Tail(s)) ELSE s

RECURSIVE RStrip(_)
RStrip(s) ==
    IF s # <<>> /\ s[Len(s)] = " " THEN RStrip(SubSeq(s, 1, Len(s) - 1)) ELSE s

\* str.strip()
Strip(s) == RStrip(LStrip(s))

\* s[:k]
Prefix(s, k) == SubSeq(s, 1, IF Len(s) < k THEN Len(s) ELSE k)

sDemo == <<"d", "e", "m", "o">>
sVendedorDemo == <<"v", "e", "n", "d", "e", "d", "o", "r", " ", "d", "e", "m", "o">>
sCorretorDemo == <<"c", "o", "r", "r", "e", "t", "o", "r", " ", "d", "e", "m", "o">>
sLeiloeiroDemo == <<"l", "e", "i", "l", "o", "e", "i", "r", "o", " ", "d", "e", "m", "o">>
sDeploy == <<"d", "e", "p", "l", "o", "y">>
sSemTitulo == <<"S", "e", "m", " ", "t", "i", "t", "u", "l", "o">>

Reasons == {"demo_seller", "demo_auctioneer", "deploy_text", "no_store"}
ZeroStats == [r \in Reasons |-> 0]

\* ------------------------------------------------------------------------
\* is_test_offer
\* ------------------------------------------------------------------------
Verdict(raised, is_test, reason) ==
    [raised |-> raised, is_test |-> is_test, reason |-> reason]

\* Variant: the store name is not looked at.
is_test_offer_ignoring_store(offer) ==
    IF GetRaises(offer.seller) THEN Verdict(TRUE, FALSE, "")
    ELSE LET seller_name == Lower(OrEmpty(Get(offer.seller, "name"))) IN
    IF Contains(sVendedorDemo, seller_name) \/ Contains(sDemo, seller_name)
        THEN Verdict(FALSE, TRUE, "demo_seller")
    ELSE Verdict(FALSE, FALSE, "")

is_test_offer(offer) ==
    IF GetRaises(offer.store) THEN Verdict(TRUE, FALSE, "")
    ELSE IF ~Truthy(Get(offer.store, "name")) THEN Verdict(FALSE, TRUE, "no_store")
    ELSE IF GetRaises(offer.seller) THEN Verdict(TRUE, FALSE, "")
    ELSE LET seller_name == Lower(OrEmpty(Get(offer.seller, "name"))) IN
    IF Contains(sVendedorDemo, seller_name) \/ Contains(sDemo, seller_name)
        THEN Verdict(FALSE, TRUE, "demo_seller")
    ELSE IF GetRaises(offer.auction) THEN Verdict(TRUE, FALSE, "")
    ELSE LET auctioneer == Lower(OrEmpty(Get(offer.auction, "auctioneer"))) IN
    IF \/ Contains(sDemo, auctioneer)
       \/ Contains(sCorretorDemo, auctioneer)
       \/ Contains(sLeiloeiroDemo, auctioneer)
        THEN Verdict(FALSE, TRUE, "demo_auctioneer")
    ELSE IF GetRaises(offer.product) THEN Verdict(TRUE, FALSE, "")
    ELSE IF GetRaises(offer.offerDescription) THEN Verdict(TRUE, FALSE, "")
    ELSE LET title == Lower(OrEmpty(Get(offer.product, "shortDesc")))
             description ==
                 Lower(OrEmpty(Get(offer.offerDescription, "offerDescription")))
         IN
    IF Contains(sDeploy, title) \/ Contains(sDeploy, description)
        THEN Verdict(FALSE, TRUE, "deploy_text")
    ELSE Verdict(FALSE, FALSE, "")

\* The active-offer test of the page loop: an offer without endDate, or whose
\* endDate does not parse, is kept; otherwise it is kept when it ends in the
\* future.
\* Variant: the end date is not looked at.
IsActive_always(offer) == TRUE

IsActive(offer) == offer.endDate # "past"

\* ------------------------------------------------------------------------
\* normalize_to_schema
\* ------------------------------------------------------------------------
\* str(offer.get("id")) : a missing id prints as "None".
IdStr(id) == IF id = NoId THEN "None" ELSE ToString(id)

ExternalId(id) == <<"superbid", IdStr(id)>>

OfferLink(id) == <<"https://exchange.superbid.net/oferta", IdStr(id)>>

CategoryName(slug) ==
    IF \E i \in DOMAIN CATEGORIES : CATEGORIES[i].slug = slug
        THEN (CHOOSE c \in {CATEGORIES[i] : i \in DOMAIN CATEGORIES} : c.slug = slug).name
        ELSE "Outros"

\* The title as product.get("shortDesc", "Sem titulo") returns it: the default
\* only when the key is missing.
RawTitle(offer) ==
    IF offer.product.tag # "obj" \/ offer.product.shortDesc = AbsentT
        THEN sSemTitulo
        ELSE offer.product.shortDesc

\* normalize_to_schema raises AttributeError on the first .get of a null
\* nested object and on .strip() of a null title.
NormalizeRaises(offer) ==
    \/ GetRaises(offer.product)
    \/ GetRaises(offer.auction)
    \/ GetRaises(offer.offerDetail)
    \/ GetRaises(offer.seller)
    \/ GetRaises(offer.store)
    \/ RawTitle(offer) = NoneT
    \/ GetRaises(offer.offerDescription)

\* seller.get("city", ""): the default only when the key is missing.
CityText(offer) ==
    IF offer.seller.tag # "obj" \/ offer.seller.city = AbsentT
        THEN <<>>
        ELSE offer.seller.city

sSlash == <<"/">>
sDash == <<" ", "-", " ">>

\* s.find(sep) + 1: the position of the first occurrence of sep, 0 if none.
Find(sep, s) ==
    IF Contains(sep, s)
        THEN CHOOSE i \in 1..(Len(s) - Len(sep) + 1) :
                /\ SubSeq(s, i, i + Len(sep) - 1) = sep
                /\ \A j \in 1..(i - 1) : SubSeq(s, j, j + Len(sep) - 1) # sep
        ELSE 0

\* s.split(sep)[0] and s.split(sep)[1], for s that contains sep.
Part0(sep, s) == SubSeq(s, 1, Find(sep, s) - 1)

Part1(sep, s) ==
    LET rest == SubSeq(s, Find(sep, s) + Len(sep), Len(s)) IN
    IF Contains(sep, rest) THEN Part0(sep, rest) ELSE rest

\* str.isupper(): at least one cased character, and no lowercase one.
IsUpper(s) ==
    /\ \E i \in 1..Len(s) : s[i] \in DOMAIN LowerMap
    /\ \A i \in 1..Len(s) : \A k \in DOMAIN LowerMap : s[i] # LowerMap[k]

\* extract_city_state: split on "/" if there is one, else on " - "; the
\* second part is the state unless it is non-empty and not two characters
\* passing isupper().
extract_city_state(city_text) ==
    IF ~Truthy(city_text) THEN [city |-> NoneT, state |-> NoneT]
    ELSE LET text == Strip(city_text)
             sep == IF Contains(sSlash, text) THEN sSlash
                    ELSE IF Contains(sDash, text) THEN sDash
                    ELSE <<>>
             city == IF sep = <<>> THEN text ELSE Strip(Part0(sep, text))
             state == IF sep = <<>> THEN NoneT ELSE Strip(Part1(sep, text))
         IN  [city |-> city,
              state |-> IF Truthy(state) /\ (Len(state) # 2 \/ ~IsUpper(state))
                            THEN NoneT ELSE state]

normalize_to_schema(offer, category_slug) ==
    LET title == Strip(RawTitle(offer))
        detail == offer.offerDetail
        value == OrNum(GetNum(detail, "currentMinBid"),
                       GetNum(detail, "initialBidValue"))
        full_description ==
            IF offer.offerDescription.tag = "obj"
                /\ offer.offerDescription.offerDescription # AbsentT
            THEN offer.offerDescription.offerDescription
            ELSE <<>>
        description_preview ==
            IF Truthy(full_description) THEN Prefix(full_description, PREVIEW_LEN)
            ELSE Prefix(title, PREVIEW_LEN)
        auction_date ==
            IF offer.endDate \in {"future", "past"} THEN offer.endDate ELSE "None"
        seller_city_text == CityText(offer)
        place == extract_city_state(seller_city_text)
    IN  [source |-> "superbid",
         external_id |-> ExternalId(offer.id),
         title |-> title,
         category |-> CategoryName(category_slug),
         value |-> value,
         city |-> place.city,
         state |-> place.state,
         description_preview |-> description_preview,
         auction_date |-> auction_date,
         store_name |-> Get(offer.store, "name"),
         description |-> full_description,
         address |-> seller_city_text,
         link |-> OfferLink(offer.id)]

\* ------------------------------------------------------------------------
\* Raw offers served by the source
\* ------------------------------------------------------------------------
sLoja == <<"L", "o", "j", "a">>
sAcme == <<"A", "c", "m", "e">>
sJoao == <<"J", "o", "a", "o">>
sCarro == <<" ", "C", "a", "r", "r", "o", " ">>
sDescricao == <<"B", "o", "m", " ", "e", "s", "t", "a", "d", "o">>
sVendedorDemoName == <<"V", "e", "n", "d", "e", "d", "o", "r", " ", "D", "e", "m", "o">>
sLeiloeiroDemoName == <<"L", "e", "i", "l", "o", "e", "i", "r", "o", " ", "D", "E", "M", "O">>
sDeployTitle == <<"T", "e", "s", "t", "e", " ", "D", "e", "p", "l", "o", "y">>
sRuaXDashSP == <<"R", "u", "a", " ", "X", " ", "-", " ", "S", "P">>
sRuaXSlashSP == <<"R", "u", "a", " ", "X", "/", "S", "P">>
sRuaX == <<"R", "u", "a", " ", "X">>
sRuaXDashXX == <<"R", "u", "a", " ", "X", " ", "-", " ", "X", "X">>

Kept(i, v) ==
    [id |-> i,
     store |-> [tag |-> "obj", name |-> sLoja],
     seller |-> [tag |-> "obj", name |-> sAcme, city |-> sRuaXDashSP],
     auction |-> [tag |-> "obj", auctioneer |-> sJoao],
     product |-> [tag |-> "obj", shortDesc |-> sCarro],
     offerDescription |-> [tag |-> "obj", offerDescription |-> sDescricao],
     offerDetail |-> [tag |-> "obj", currentMinBid |-> v, initialBidValue |-> 1],
     endDate |-> "future"]

DemoSellerOffer(i) == [Kept(i, 1) EXCEPT !.seller.name = sVendedorDemoName]
NoStoreOffer(i) ==
    [Kept(i, 1) EXCEPT !.store.name = NoneT, !.seller.name = sVendedorDemoName]
DemoAuctioneerOffer(i) ==
    [Kept(i, 1) EXCEPT !.auction.auctioneer = sLeiloeiroDemoName, !.seller.name = NoneT]
DeployOffer(i) ==
    [Kept(i, 1) EXCEPT !.product.shortDesc = sDeployTitle,
                       !.offerDescription.tag = "absent"]
\* A kept offer whose title is null ("shortDesc": null).
NullTitleOffer(i) == [Kept(i, 1) EXCEPT !.product.shortDesc = NoneT]
\* An offer whose seller object is null ("seller": null).
NullSellerOffer(i) == [Kept(i, 1) EXCEPT !.seller.tag = "null"]
\* A kept offer whose seller city reads as given.
CityOffer(i, city_text) == [Kept(i, 1) EXCEPT !.seller.city = city_text]
\* An offer that has no store name and nothing else against it.
PlainNoStoreOffer(i) == [Kept(i, 1) EXCEPT !.store.name = NoneT]
\* A kept offer without an "id" key.
NoIdOffer == Kept(NoId, 1)
\* An offer that already ended.
EndedOffer(i) == [Kept(i, 1) EXCEPT !.endDate = "past"]

Group(o, n) == [o |-> o, n |-> n]

Scenarios == {"long", "e2e", "mid", "nulltitle", "raise", "empty"}

\* The results array the source holds for page p of a listing.
Listing(scn, p) ==
    CASE scn = "long" ->
            IF p <= LongPages THEN <<Group(Kept(p, 1), PAGE_SIZE)>>
            ELSE IF p = LongPages + 1 THEN <<Group(Kept(p, 1), 7)>>
            ELSE <<>>
      [] scn = "e2e" ->
            IF p = 1 THEN <<Group(Kept(1, 1), 90), Group(DemoSellerOffer(901), 4),
                            Group(NoStoreOffer(902), 3),
                            Group(DemoAuctioneerOffer(903), 2),
                            Group(DeployOffer(904), 1)>>
            ELSE IF p = 2 THEN <<Group(Kept(2, 1), PAGE_SIZE)>>
            ELSE IF p = 3 THEN <<Group(Kept(3, 1), 7)>>
            ELSE <<>>
      [] scn = "mid" ->
            IF p = 1 THEN <<Group(Kept(1, 1), 45), Group(CityOffer(6, sRuaXSlashSP), 1),
                            Group(CityOffer(7, sRuaX), 1),
                            Group(CityOffer(8, sRuaXDashXX), 1),
                            Group(PlainNoStoreOffer(9), 1),
                            Group(NoIdOffer, 1)>>
            ELSE IF p = 2 THEN <<Group(Kept(1, 2), 30), Group(EndedOffer(5), 20)>>
            ELSE <<>>
      [] scn = "nulltitle" ->
            IF p = 1 THEN <<Group(Kept(p, 1), 99), Group(NullTitleOffer(77), 1)>>
            ELSE IF p <= 10 THEN <<Group(Kept(p, 1), PAGE_SIZE)>>
            ELSE IF p = 11 THEN <<Group(Kept(p, 1), 7)>>
            ELSE <<>>
      [] scn = "endless" ->
            <<Group(Kept(1, 1), PAGE_SIZE)>>
      [] scn = "raise" ->
            IF p = 1 THEN <<Group(Kept(1, 1), PAGE_SIZE)>>
            ELSE IF p = 2 THEN <<Group(DemoSellerOffer(901), 2),
                                 Group(NullSellerOffer(88), 1),
                                 Group(Kept(2, 1), 97)>>
            ELSE <<>>
      [] OTHER -> <<>>

\* ------------------------------------------------------------------------
\* Lists of offers
\* ------------------------------------------------------------------------
RECURSIVE ListLen(_)
ListLen(list) == IF list = <<>> THEN 0 ELSE Head(list).n + ListLen(Tail(list))

AppendGroup(list, g) ==
    IF list # <<>> /\ list[Len(list)].o = g.o
        THEN [list EXCEPT ![Len(list)].n = @ + g.n]
        ELSE Append(list, g)

\* list.extend(groups)
RECURSIVE Extend(_, _)
Extend(list, groups) ==
    IF groups = <<>> THEN list
    ELSE Extend(AppendGroup(list, Head(groups)), Tail(groups))

ExtIds(list) == {ExternalId(list[i].o.id) : i \in DOMAIN list}

\* The per-offer loop over one page: classification, filter counters, active
\* test.  An exception of is_test_offer leaves the loop; the counters keep
\* what was counted before it.
RECURSIVE FilterPage(_)
FilterPage(groups) ==
    IF groups = <<>> THEN [raised |-> FALSE, active |-> <<>>, filt |-> ZeroStats]
    ELSE LET g == Head(groups)
             v == is_test_offer(g.o)
         IN  IF v.raised
                 THEN [raised |-> TRUE, active |-> <<>>, filt |-> ZeroStats]
             ELSE LET rest == FilterPage(Tail(groups)) IN
                  IF v.is_test
                      THEN [rest EXCEPT !.filt[v.reason] = @ + g.n]
                  ELSE IF IsActive(g.o)
                      THEN [rest EXCEPT !.active = <<g>> \o @]
                  ELSE rest

AddStats(a, b) == [r \in Reasons |-> a[r] + b[r]]

\* [normalize_to_schema(o, slug) for o in offers]
AnyNormalizeRaises(list) == \E i \in DOMAIN list : NormalizeRaises(list[i].o)

NormalizeAll(list, slug) ==
    [i \in DOMAIN list |-> normalize_to_schema(list[i].o, slug)]

\* Variant: a key already in the dict keeps its first value.
DictPut_keep_first(d, r) ==
    IF \E i \in DOMAIN d : d[i].external_id = r.external_id
        THEN d
        ELSE Append(d, r)

\* d[r["external_id"]] = r on an insertion-ordered dict
DictPut(d, r) ==
    IF \E i \in DOMAIN d : d[i].external_id = r.external_id
        THEN LET i == CHOOSE j \in DOMAIN d : d[j].external_id = r.external_id
             IN  [d EXCEPT ![i] = r]
        ELSE Append(d, r)

\* list({o["external_id"]: o for o in normalized}.values())
RECURSIVE DedupInto(_, _)
DedupInto(d, recs) ==
    IF recs = <<>> THEN d ELSE DedupInto(DictPut(d, Head(recs)), Tail(recs))

Dedup(recs) == DedupInto(<<>>, recs)

RecIds(recs) == {recs[i].external_id : i \in DOMAIN recs}

\* _UFS: the 27 region codes the client module knows.
UFS ==
    { <<c[1], c[2]>> : c \in
        { <<"A", "C">>, <<"A", "L">>, <<"A", "P">>, <<"A", "M">>, <<"B", "A">>,
          <<"C", "E">>, <<"D", "F">>, <<"E", "S">>, <<"G", "O">>, <<"M", "A">>,
          <<"M", "T">>, <<"M", "S">>, <<"M", "G">>, <<"P", "A">>, <<"P", "B">>,
          <<"P", "R">>, <<"P", "E">>, <<"P", "I">>, <<"R", "J">>, <<"R", "N">>,
          <<"R", "S">>, <<"R", "O">>, <<"R", "R">>, <<"S", "C">>, <<"S", "P">>,
          <<"S", "E">>, <<"T", "O">> } }

\* ------------------------------------------------------------------------
\* Upsert client, as upload_to_supabase drives it
\* ------------------------------------------------------------------------
ProbeOutcomes == {"ok", "unavailable", "exception"}
InsertRawOutcomes == {"ok", "raise"}
BatchOutcomes == {"ok", "http_error", "exception"}

\* Variant: only an answered, non-success probe reads as absent.
check_rpc_availability_trusting(probe) == probe # "unavailable"

\* _check_rpc_availability: the capability is present only when the probe
\* answers 200/201; any exception reads as absent.
check_rpc_availability(probe) == probe = "ok"

\* Variant: the probe is issued on every call.
cached_check_rpc_availability_always(c, probe) ==
    [c EXCEPT !.probed = TRUE,
              !.rpc_available = check_rpc_availability(probe),
              !.probes = @ + 1]

\* _check_rpc_availability on an instance c: the cached answer if there is
\* one, else one probe whose verdict is cached.
cached_check_rpc_availability(c, probe) ==
    IF c.probed THEN c
    ELSE [c EXCEPT !.probed = TRUE,
                   !.rpc_available = check_rpc_availability(probe),
                   !.probes = @ + 1]

\* items[i:i+batch_size] for i in range(0, len(items), batch_size)
NumBatches(n, batch_size) == (n + batch_size - 1) \div batch_size

Batch(items, batch_size, k) ==
    SubSeq(items, (k - 1) * batch_size + 1,
           IF k * batch_size < Len(items) THEN k * batch_size ELSE Len(items))

ZeroUpsertStats == [inserted |-> 0, updated |-> 0, errors |-> 0]

\* What the body of a 200 answer of the upsert function reports for a batch of
\* n records: all new, all already there, or one of them rejected.
BodyKinds == {"inserted", "updated", "one_error"}

RpcBody(kind, n) ==
    CASE kind = "updated" -> [inserted |-> 0, updated |-> n, errors |-> 0]
      [] kind = "one_error" -> [inserted |-> n - 1, updated |-> 0, errors |-> 1]
      [] OTHER -> [inserted |-> n, updated |-> 0, errors |-> 0]

StartUpsert == [posts |-> <<>>, stats |-> ZeroUpsertStats]

\* Variant: a failed batch ends the loop.
RpcLoopOver_aborting(items, k, acc) ==
    \/ k > NumBatches(Len(items), RPC_BATCH_SIZE)
    \/ \E h \in DOMAIN acc.posts : acc.posts[h].outcome # "ok"

\* for i in range(0, len(items), batch_size): no batch k is left.
RpcLoopOver(items, k, acc) == k > NumBatches(Len(items), RPC_BATCH_SIZE)

\* One turn of the loop of _upsert_via_rpc: batch k is posted; a 200 answer
\* adds the counts of its body, any other status and any exception add
\* len(batch) to errors.
RpcIteration(items, out, body, k, acc) ==
    LET batch == Batch(items, RPC_BATCH_SIZE, k)
        result == RpcBody(body, Len(batch))
    IN  [posts |-> Append(acc.posts,
                          [path |-> "rpc", items |-> batch, outcome |-> out]),
         stats |-> IF out = "ok"
                       THEN [inserted |-> acc.stats.inserted + result.inserted,
                             updated |-> acc.stats.updated + result.updated,
                             errors |-> acc.stats.errors + result.errors]
                       ELSE [acc.stats EXCEPT !.errors = @ + Len(batch)]]

RECURSIVE RpcLoop(_, _, _, _, _)
RpcLoop(items, outs, bodies, k, acc) ==
    IF RpcLoopOver(items, k, acc) THEN acc
    ELSE RpcLoop(items, outs, bodies, k + 1,
                 RpcIteration(items, outs[k], bodies[k], k, acc))

FallbackLoopOver(items, k, acc) == k > NumBatches(Len(items), FALLBACK_BATCH_SIZE)

\* Variant: a batch lost to an exception is not counted.
FallbackIteration_forgetting(items, out, k, acc) ==
    LET batch == Batch(items, FALLBACK_BATCH_SIZE, k) IN
    [posts |-> Append(acc.posts,
                      [path |-> "table", items |-> batch, outcome |-> out]),
     stats |-> IF out = "ok"
                   THEN [acc.stats EXCEPT !.inserted = @ + Len(batch)]
                   ELSE IF out = "exception" THEN acc.stats
                   ELSE [acc.stats EXCEPT !.errors = @ + Len(batch)]]

\* One turn of the loop of _upsert_fallback: a 200/201 answer adds len(batch)
\* to inserted, anything else adds it to errors.
FallbackIteration(items, out, k, acc) ==
    LET batch == Batch(items, FALLBACK_BATCH_SIZE, k) IN
    [posts |-> Append(acc.posts,
                      [path |-> "table", items |-> batch, outcome |-> out]),
     stats |-> IF out = "ok"
                   THEN [acc.stats EXCEPT !.inserted = @ + Len(batch)]
                   ELSE [acc.stats EXCEPT !.errors = @ + Len(batch)]]

RECURSIVE FallbackLoop(_, _, _, _)
FallbackLoop(items, outs, k, acc) ==
    IF FallbackLoopOver(items, k, acc) THEN acc
    ELSE FallbackLoop(items, outs, k + 1,
                      FallbackIteration(items, outs[k], k, acc))

upsert_via_rpc(items, outs, bodies) == RpcLoop(items, outs, bodies, 1, StartUpsert)

upsert_fallback(items, outs) == FallbackLoop(items, outs, 1, StartUpsert)

\* upsert_normalized: nothing is sent for an empty list; otherwise the path
\* the cached probe result selects.  outs[k] is the outcome of the POST of
\* batch k, bodies[k] what a 200 answer of the upsert function carries.
upsert_normalized(items, rpc_available, outs, bodies) ==
    IF items = <<>> THEN StartUpsert
    ELSE IF rpc_available THEN upsert_via_rpc(items, outs, bodies)
    ELSE upsert_fallback(items, outs)

NoUpload ==
    [called |-> FALSE, client |-> "none", rpc_available |-> FALSE, raw |-> "not_called",
     norm_attempted |-> FALSE, items |-> <<>>, posts |-> <<>>, returned |-> FALSE]

\* upload_to_supabase(offers): construct the client (ValueError without
\* credentials), archive the raw batch, then upsert; every exception is caught
\* by the one try block around all three and turns into "return False".
upload_to_supabase(items, has_creds, probe, raw, outs) ==
    IF ~has_creds
        THEN [NoUpload EXCEPT !.called = TRUE, !.client = "ValueError",
                              !.items = items]
    ELSE IF raw = "raise"
        THEN [NoUpload EXCEPT !.called = TRUE, !.client = "ok",
                              !.rpc_available = check_rpc_availability(probe),
                              !.raw = "raise", !.items = items]
    ELSE [called |-> TRUE, client |-> "ok",
          rpc_available |-> check_rpc_availability(probe),
          raw |-> "ok", norm_attempted |-> TRUE, items |-> items,
          posts |-> upsert_normalized(items, check_rpc_availability(probe), outs,
                                      [k \in DOMAIN outs |-> "inserted"]).posts,
          returned |-> TRUE]

\* Every result one call of upload_to_supabase can have.
UploadResults(items, has_creds) ==
    { upload_to_supabase(items, has_creds, probe, raw, outs) :
        probe \in ProbeOutcomes, raw \in InsertRawOutcomes,
        outs \in [1..NumBatches(Len(items), FALLBACK_BATCH_SIZE) -> BatchOutcomes] }

\* ------------------------------------------------------------------------
\* State
\* ------------------------------------------------------------------------
VARIABLES
    mode,                \* "full_update" or "categoria" (the CLI flag given)
    max_pages,           \* --max-pages, 0 when not given
    creds,               \* SUPABASE_URL and SUPABASE_SERVICE_ROLE_KEY are set
    pc,                  \* "main", "scrape_all", "fetch", "unit_end", "done"
    exit_code,           \* -1 while running, then the status of sys.exit
    expired,             \* time.time() - start_time > MAX_EXECUTION_TIME
    category_count,      \* scrape_all: categories started so far
    cat,                 \* index in CATEGORIES of the unit being crawled
    scenario,            \* the listing the source holds for this unit
    page,                \* fetch_category_offers locals
    offers,
    checkpoint_counter,
    consecutive_errors,
    local_filtered,
    filtered_stats,      \* self.filtered_stats
    stop_reason,         \* why the page loop of this unit was left
    flushes,             \* this unit's calls of upload_to_supabase, in order
    last_upload,         \* what upload_to_supabase did in the latest step, if called
    last_sleep,          \* the sleep the latest step ended with
    last_resp,           \* the response the latest request of the unit got
    last_page_len,       \* len(page_offers) of that response, -1 if no page
    fail_streak,         \* requests of the unit since its last accepted page
    last_req,            \* the latest page request: its page number, and
                         \* whether the deadline had passed when it was issued
    cls_offer,           \* the raw offer given to is_test_offer on its own
    cls_verdict,         \* what is_test_offer did with it
    client,              \* a SupabaseClient instance driven on its own
    sink                 \* the auctions table that instance writes to

vars ==
    <<mode, max_pages, creds, pc, exit_code, expired, category_count, cat,
      scenario, page, offers, checkpoint_counter, consecutive_errors,
      local_filtered, filtered_stats, stop_reason, flushes, last_upload,
      last_sleep, last_resp, last_page_len, fail_streak, last_req,
      cls_offer, cls_verdict, client, sink>>

crawlVars ==
    <<mode, max_pages, creds, pc, exit_code, expired, category_count, cat,
      scenario, page, offers, checkpoint_counter, consecutive_errors,
      local_filtered, filtered_stats, stop_reason, flushes, last_upload,
      last_sleep, last_resp, last_page_len, fail_streak, last_req>>

auxVars == <<cls_offer, cls_verdict, client, sink>>
argVars == <<mode, max_pages, creds>>
unitVars == <<page, offers, checkpoint_counter, consecutive_errors, local_filtered>>

NoRequest == [page |-> 0, late |-> FALSE]

should_stop == FALSE

\* Variant: the deadline is not consulted.
check_timeout_no_deadline == should_stop

check_timeout == expired \/ should_stop

\* No offer has been classified on its own, no client built on its own.
NoVerdict == [raised |-> FALSE, is_test |-> FALSE, reason |-> "pending"]
\* state: "none" before construction, "ready" after it, "ValueError" when
\* __init__ raised.  probed/rpc_available hold _rpc_available (not probed is
\* None); probes counts the probe requests issued.  probe and first_mode keep
\* what the probe of the constructor got and decided.  calls and rechecks
\* count the calls of upsert_normalized and of _check_rpc_availability after
\* construction; n, outs, bodies, posts and stats describe the latest upsert,
\* busy says that its batch loop has not ended.
NoClient ==
    [state |-> "none", probed |-> FALSE, rpc_available |-> FALSE, probes |-> 0,
     probe |-> "none", first_mode |-> FALSE, calls |-> 0, rechecks |-> 0,
     busy |-> FALSE, n |-> 0, outs |-> <<>>, bodies |-> <<>>, posts |-> <<>>,
     stats |-> ZeroUpsertStats]

\* rows: the external ids stored.  conflicts[k]: batch k of the latest call
\* held only ids that were stored already when it was posted.  first: the
\* statistics the first of two submissions returned, and whether every one of
\* its batches was stored.
EmptySink ==
    [rows |-> {}, conflicts |-> <<>>,
     first |-> [stats |-> ZeroUpsertStats, clean |-> TRUE]]

AuxIdle ==
    /\ cls_offer = <<>>
    /\ cls_verdict = NoVerdict
    /\ client = NoClient
    /\ sink = EmptySink

\* The crawl has not been started.
CrawlIdle ==
    /\ mode = "full_update"
    /\ max_pages = 0
    /\ creds = TRUE
    /\ pc = "main"
    /\ exit_code = -1
    /\ expired = FALSE
    /\ category_count = 0
    /\ cat = 0
    /\ scenario = "none"
    /\ page = 0
    /\ offers = <<>>
    /\ checkpoint_counter = 0
    /\ consecutive_errors = 0
    /\ local_filtered = ZeroStats
    /\ filtered_stats = ZeroStats
    /\ stop_reason = "none"
    /\ flushes = <<>>
    /\ last_upload = NoUpload
    /\ last_sleep = "none"
    /\ last_resp = "none"
    /\ last_page_len = -1
    /\ fail_streak = 0
    /\ last_req = NoRequest

Init ==
    /\ AuxIdle
    /\ mode \in {"full_update", "categoria"}
    /\ max_pages \in {0, MaxPagesArg}
    /\ creds \in BOOLEAN
    /\ pc = "main"
    /\ exit_code = -1
    /\ expired = FALSE
    /\ category_count = 0
    /\ cat = 0
    /\ scenario = "none"
    /\ page = 0
    /\ offers = <<>>
    /\ checkpoint_counter = 0
    /\ consecutive_errors = 0
    /\ local_filtered = ZeroStats
    /\ filtered_stats = ZeroStats
    /\ stop_reason = "none"
    /\ flushes = <<>>
    /\ last_upload = NoUpload
    /\ last_sleep = "none"
    /\ last_resp = "none"
    /\ last_page_len = -1
    /\ fail_streak = 0
    /\ last_req = NoRequest

Categories == SubSeq(CATEGORIES, 1, NumCategories)

\* ------------------------------------------------------------------------
\* main and scrape_all
\* ------------------------------------------------------------------------
\* The first lines of fetch_category_offers; the source's listing for the
\* unit is whatever it happens to hold.
StartFetch(c) ==
    /\ cat' = c
    /\ scenario' \in Scenarios
    /\ page' = 1
    /\ offers' = <<>>
    /\ checkpoint_counter' = 0
    /\ consecutive_errors' = 0
    /\ local_filtered' = ZeroStats
    /\ stop_reason' = "none"
    /\ flushes' = <<>>
    /\ last_upload' = NoUpload
    /\ last_resp' = "none"
    /\ last_page_len' = -1
    /\ fail_streak' = 0
    /\ last_req' = NoRequest
    /\ pc' = "fetch"

\* main, --full-update: scraper.scrape_all(max_pages)
MainFullUpdate ==
    /\ pc = "main"
    /\ mode = "full_update"
    /\ pc' = "scrape_all"
    /\ last_upload' = NoUpload
    /\ UNCHANGED <<auxVars, argVars, exit_code, expired, category_count, cat, scenario,
                   unitVars, filtered_stats, stop_reason, flushes, 
                   last_sleep, last_resp, last_page_len, fail_streak, last_req>>

\* main, --categoria <slug>: fetch_category_offers(args.categoria, max_pages)
MainCategoria ==
    /\ pc = "main"
    /\ mode = "categoria"
    /\ \E c \in DOMAIN Categories : StartFetch(c)
    /\ UNCHANGED <<auxVars, argVars, exit_code, expired, category_count, filtered_stats,
                   last_sleep>>

\* scrape_all, head of the loop over CATEGORIES: the next category starts.
ScrapeAllStartUnit ==
    /\ pc = "scrape_all"
    /\ category_count < Len(Categories)
    /\ ~check_timeout
    /\ category_count' = category_count + 1
    /\ StartFetch(category_count + 1)
    /\ UNCHANGED <<auxVars, argVars, exit_code, expired, filtered_stats, last_sleep>>

\* scrape_all leaves the loop (deadline passed, or no category left), returns,
\* and main exits with status 0.
ScrapeAllReturn ==
    /\ pc = "scrape_all"
    /\ category_count = Len(Categories) \/ check_timeout
    /\ pc' = "done"
    /\ exit_code' = 0
    /\ last_upload' = NoUpload
    /\ UNCHANGED <<auxVars, argVars, expired, category_count, cat, scenario, unitVars,
                   filtered_stats, stop_reason, flushes,  last_sleep,
                   last_resp, last_page_len, fail_streak, last_req>>

\* ------------------------------------------------------------------------
\* fetch_category_offers: one iteration of the page loop per action
\* ------------------------------------------------------------------------
MaxPagesReached == max_pages # 0 /\ page > max_pages

\* A source that answers every page number with a full page is followed for
\* EndlessPages pages; by then the deadline passes.
EndlessPages == 11

\* The loop condition and the max_pages test let a request through.
Requesting ==
    /\ pc = "fetch" /\ ~check_timeout /\ ~MaxPagesReached
    /\ scenario = "endless" => page <= EndlessPages

IssueRequest == last_req' = [page |-> page, late |-> expired]

\* What the source answered to the request (observation only): the kind of
\* response, the length of its results array (-1 when it carries none), and
\* the number of requests in a row that did not yield an accepted page.
FailureKinds ==
    {"malformed", "429", "status", "timeout", "exception", "page_exception",
     "checkpoint_exception"}

Observe(resp, len) ==
    /\ last_resp' = resp
    /\ last_page_len' = len
    /\ fail_streak' = IF resp \in FailureKinds THEN fail_streak + 1
                      ELSE IF resp = "ok" THEN 0
                      ELSE fail_streak

\* Variant: no page is short.
IsShortPage_never(n) == FALSE

IsShortPage(n) == n < SHORT_PAGE_LIMIT

\* Variant: one error more than the budget is tolerated.
BudgetExhausted_late(n) == n > max_retries

BudgetExhausted(n) == n >= max_retries

CheckpointDue(n, counter) == n >= (counter + 1) * SAVE_CHECKPOINT_EVERY

\* while not self.check_timeout(): the deadline has passed.
FetchLoopTimeout ==
    /\ pc = "fetch"
    /\ check_timeout
    /\ pc' = "unit_end"
    /\ stop_reason' = "timeout"
    /\ last_upload' = NoUpload
    /\ UNCHANGED <<auxVars, argVars, exit_code, expired, category_count, cat, scenario,
                   unitVars, filtered_stats, flushes,  last_sleep,
                   last_resp, last_page_len, fail_streak, last_req>>

\* if max_pages and page > max_pages: break
FetchMaxPages ==
    /\ pc = "fetch"
    /\ ~check_timeout
    /\ MaxPagesReached
    /\ pc' = "unit_end"
    /\ stop_reason' = "max_pages"
    /\ last_upload' = NoUpload
    /\ UNCHANGED <<auxVars, argVars, exit_code, expired, category_count, cat, scenario,
                   unitVars, filtered_stats, flushes,  last_sleep,
                   last_resp, last_page_len, fail_streak, last_req>>

\* The error branches: consecutive_errors += 1, then break when the budget is
\* used up.  sleep_before is a sleep taken before the count (429), sleep_after
\* one taken only when the loop goes on (timeout, other exceptions).
TransientError(sleep_before, sleep_after) ==
    /\ consecutive_errors' = consecutive_errors + 1
    /\ IF BudgetExhausted(consecutive_errors + 1)
          THEN /\ pc' = "unit_end"
               /\ stop_reason' = "abandoned"
               /\ last_sleep' = sleep_before
          ELSE /\ pc' = "fetch"
               /\ stop_reason' = stop_reason
               /\ last_sleep' = IF sleep_after # "none" THEN sleep_after
                                ELSE sleep_before

\* Variant: a 404 is handled like any other error status.
Fetch404_as_error ==
    /\ Requesting
    /\ IssueRequest
    /\ Observe("404", -1)
    /\ TransientError("none", "none")
    /\ last_upload' = NoUpload
    /\ UNCHANGED <<auxVars, argVars, exit_code, expired, category_count, cat, scenario,
                   page, offers, checkpoint_counter, local_filtered,
                   filtered_stats, flushes>>

\* r.status_code == 404
Fetch404 ==
    /\ Requesting
    /\ IssueRequest
    /\ pc' = "unit_end"
    /\ stop_reason' = "404"
    /\ Observe("404", -1)
    /\ last_sleep' = "none"
    /\ last_upload' = NoUpload
    /\ UNCHANGED <<auxVars, argVars, exit_code, expired, category_count, cat, scenario,
                   unitVars, filtered_stats, flushes>>

\* r.status_code == 200 and r.json() raises json.JSONDecodeError
FetchMalformed ==
    /\ Requesting
    /\ IssueRequest
    /\ Observe("malformed", -1)
    /\ TransientError("none", "none")
    /\ last_upload' = NoUpload
    /\ UNCHANGED <<auxVars, argVars, exit_code, expired, category_count, cat, scenario,
                   page, offers, checkpoint_counter, local_filtered,
                   filtered_stats, flushes >>

\* Variant: a rate-limited page is given up and the next one requested.
Fetch429_skips_page ==
    /\ Requesting
    /\ IssueRequest
    /\ Observe("429", -1)
    /\ TransientError("rate_limit", "none")
    /\ page' = page + 1
    /\ last_upload' = NoUpload
    /\ UNCHANGED <<auxVars, argVars, exit_code, expired, category_count, cat, scenario,
                   offers, checkpoint_counter, local_filtered,
                   filtered_stats, flushes>>

\* r.status_code == 429
Fetch429 ==
    /\ Requesting
    /\ IssueRequest
    /\ Observe("429", -1)
    /\ TransientError("rate_limit", "none")
    /\ last_upload' = NoUpload
    /\ UNCHANGED <<auxVars, argVars, exit_code, expired, category_count, cat, scenario,
                   page, offers, checkpoint_counter, local_filtered,
                   filtered_stats, flushes >>

\* any other status code
FetchOtherStatus ==
    /\ Requesting
    /\ IssueRequest
    /\ Observe("status", -1)
    /\ TransientError("none", "none")
    /\ last_upload' = NoUpload
    /\ UNCHANGED <<auxVars, argVars, exit_code, expired, category_count, cat, scenario,
                   page, offers, checkpoint_counter, local_filtered,
                   filtered_stats, flushes >>

\* requests.exceptions.Timeout
FetchRequestTimeout ==
    /\ Requesting
    /\ IssueRequest
    /\ Observe("timeout", -1)
    /\ TransientError("none", "timeout_wait")
    /\ last_upload' = NoUpload
    /\ UNCHANGED <<auxVars, argVars, exit_code, expired, category_count, cat, scenario,
                   page, offers, checkpoint_counter, local_filtered,
                   filtered_stats, flushes >>

\* any other exception of the request or of decoding its body
FetchException ==
    /\ Requesting
    /\ IssueRequest
    /\ Observe("exception", -1)
    /\ TransientError("none", "error_wait")
    /\ last_upload' = NoUpload
    /\ UNCHANGED <<auxVars, argVars, exit_code, expired, category_count, cat, scenario,
                   page, offers, checkpoint_counter, local_filtered,
                   filtered_stats, flushes >>

\* The results of the page the source answers with (status 200, valid JSON).
PageOffers == Listing(scenario, page)

Filtered == FilterPage(PageOffers)

CountFiltered ==
    /\ local_filtered' = AddStats(local_filtered, Filtered.filt)
    /\ filtered_stats' = AddStats(filtered_stats, Filtered.filt)

\* Variant: only the newest offers are sent, not the list so far.
save_checkpoint_newest(list, slug) ==
    Dedup(NormalizeAll(<<list[Len(list)]>>, slug))

\* What save_checkpoint and the end-of-unit code hand to upload_to_supabase:
\* the whole list normalized, one record per external_id, the last one seen.
save_checkpoint(list, slug) == Dedup(NormalizeAll(list, slug))

Flush(kind, num, normalized) ==
    [kind |-> kind, num |-> num, ids |-> RecIds(normalized), n |-> Len(normalized)]

\* status 200, "offers" missing or empty
FetchEmptyPage ==
    /\ Requesting
    /\ PageOffers = <<>>
    /\ IssueRequest
    /\ pc' = "unit_end"
    /\ stop_reason' = "empty"
    /\ Observe("empty", 0)
    /\ last_sleep' = "none"
    /\ last_upload' = NoUpload
    /\ UNCHANGED <<auxVars, argVars, exit_code, expired, category_count, cat, scenario,
                   unitVars, filtered_stats, flushes>>

\* status 200, and is_test_offer raises on one of the page's offers: the
\* generic except clause counts an error; the page's offers are not appended.
FetchPageRaises ==
    /\ Requesting
    /\ PageOffers # <<>>
    /\ Filtered.raised
    /\ IssueRequest
    /\ CountFiltered
    /\ Observe("page_exception", ListLen(PageOffers))
    /\ TransientError("none", "error_wait")
    /\ last_upload' = NoUpload
    /\ UNCHANGED <<auxVars, argVars, exit_code, expired, category_count, cat, scenario,
                   page, offers, checkpoint_counter, flushes >>

\* status 200 and a page the loop takes for the last one
FetchShortPage ==
    /\ Requesting
    /\ PageOffers # <<>>
    /\ ~Filtered.raised
    /\ IsShortPage(ListLen(PageOffers))
    /\ IssueRequest
    /\ CountFiltered
    /\ offers' = Extend(offers, Filtered.active)
    /\ pc' = "unit_end"
    /\ stop_reason' = "short"
    /\ Observe("ok", ListLen(PageOffers))
    /\ last_sleep' = "none"
    /\ last_upload' = NoUpload
    /\ UNCHANGED <<auxVars, argVars, exit_code, expired, category_count, cat, scenario,
                   page, checkpoint_counter, consecutive_errors, flushes >>

\* The end of an iteration that accepted a page: next page, error count reset,
\* politeness delay.
NextPage ==
    /\ page' = page + 1
    /\ consecutive_errors' = 0
    /\ Observe("ok", ListLen(PageOffers))
    /\ last_sleep' = "page_delay"
    /\ pc' = "fetch"

\* status 200, a page that is not the last, no checkpoint due
FetchPage ==
    /\ Requesting
    /\ PageOffers # <<>>
    /\ ~Filtered.raised
    /\ ~IsShortPage(ListLen(PageOffers))
    /\ LET extended == Extend(offers, Filtered.active) IN
        /\ ~CheckpointDue(ListLen(extended), checkpoint_counter)
        /\ offers' = extended
    /\ IssueRequest
    /\ CountFiltered
    /\ NextPage
    /\ last_upload' = NoUpload
    /\ UNCHANGED <<auxVars, argVars, exit_code, expired, category_count, cat, scenario,
                   checkpoint_counter, stop_reason, flushes >>

\* status 200, a page that is not the last, and a checkpoint is due:
\* save_checkpoint normalizes, deduplicates and uploads the list so far.
FetchPageCheckpoint ==
    /\ Requesting
    /\ PageOffers # <<>>
    /\ ~Filtered.raised
    /\ ~IsShortPage(ListLen(PageOffers))
    /\ LET extended == Extend(offers, Filtered.active) IN
        /\ CheckpointDue(ListLen(extended), checkpoint_counter)
        /\ ~AnyNormalizeRaises(extended)
        /\ offers' = extended
        /\ checkpoint_counter' = checkpoint_counter + 1
        /\ LET normalized == save_checkpoint(extended, Categories[cat].slug) IN
            /\ flushes' = Append(flushes,
                                 Flush("ckpt", checkpoint_counter + 1, normalized))
            /\ last_upload' \in UploadResults(normalized, creds)
    /\ IssueRequest
    /\ CountFiltered
    /\ NextPage
    /\ UNCHANGED <<auxVars, argVars, exit_code, expired, category_count, cat, scenario,
                   stop_reason>>

\* status 200, a checkpoint is due and normalize_to_schema raises inside
\* save_checkpoint: the offers are already appended and checkpoint_counter
\* already incremented when the generic except clause counts an error; the
\* page number stays.
FetchCheckpointRaises ==
    /\ Requesting
    /\ PageOffers # <<>>
    /\ ~Filtered.raised
    /\ ~IsShortPage(ListLen(PageOffers))
    /\ LET extended == Extend(offers, Filtered.active) IN
        /\ CheckpointDue(ListLen(extended), checkpoint_counter)
        /\ AnyNormalizeRaises(extended)
        /\ offers' = extended
        /\ checkpoint_counter' = checkpoint_counter + 1
    /\ IssueRequest
    /\ CountFiltered
    /\ Observe("checkpoint_exception", ListLen(PageOffers))
    /\ TransientError("none", "error_wait")
    /\ last_upload' = NoUpload
    /\ UNCHANGED <<auxVars, argVars, exit_code, expired, category_count, cat, scenario,
                   page, flushes >>

\* ------------------------------------------------------------------------
\* End of a unit: scrape_all after fetch_category_offers returned (or main,
\* with --categoria)
\* ------------------------------------------------------------------------
AfterUnit ==
    IF mode = "full_update"
        THEN /\ pc' = "scrape_all"
             /\ exit_code' = exit_code
             /\ last_sleep' = IF category_count < Len(Categories) /\ ~check_timeout
                              THEN "category_delay" ELSE "none"
        ELSE /\ pc' = "done"
             /\ exit_code' = 0
             /\ last_sleep' = "none"

\* if offers: ... else: nothing to send
UnitEndEmpty ==
    /\ pc = "unit_end"
    /\ offers = <<>>
    /\ AfterUnit
    /\ last_upload' = NoUpload
    /\ UNCHANGED <<auxVars, argVars, expired, category_count, cat, scenario, unitVars,
                   filtered_stats, stop_reason, flushes,  last_resp,
                   last_page_len, fail_streak, last_req>>

\* if offers: normalize, deduplicate, save and upload the unit's list
UnitEndFlush ==
    /\ pc = "unit_end"
    /\ offers # <<>>
    /\ ~AnyNormalizeRaises(offers)
    /\ LET normalized == save_checkpoint(offers, Categories[cat].slug) IN
        /\ flushes' = Append(flushes, Flush("final", 0, normalized))
        /\ last_upload' \in UploadResults(normalized, creds)
    /\ AfterUnit
    /\ UNCHANGED <<auxVars, argVars, expired, category_count, cat, scenario, unitVars,
                   filtered_stats, stop_reason, last_resp, last_page_len,
                   fail_streak, last_req>>

\* if offers: normalize_to_schema raises; nothing in scrape_all catches it, so
\* main prints "Erro fatal" and exits with status 1.
UnitEndFatal ==
    /\ pc = "unit_end"
    /\ offers # <<>>
    /\ AnyNormalizeRaises(offers)
    /\ pc' = "done"
    /\ exit_code' = 1
    /\ last_upload' = NoUpload
    /\ UNCHANGED <<auxVars, argVars, expired, category_count, cat, scenario, unitVars,
                   filtered_stats, stop_reason, flushes,  last_sleep,
                   last_resp, last_page_len, fail_streak, last_req>>

\* Wall-clock time passes MAX_EXECUTION_TIME.
DeadlinePasses ==
    /\ pc # "done"
    /\ ~expired
    /\ expired' = TRUE
    /\ UNCHANGED <<auxVars, argVars, pc, exit_code, category_count, cat, scenario,
                   unitVars, filtered_stats, stop_reason, flushes, last_upload,
                   last_sleep, last_resp, last_page_len, fail_streak, last_req>>

Next ==
    \/ MainFullUpdate
    \/ MainCategoria
    \/ ScrapeAllStartUnit
    \/ ScrapeAllReturn
    \/ FetchLoopTimeout
    \/ FetchMaxPages
    \/ Fetch404
    \/ FetchMalformed
    \/ Fetch429
    \/ FetchOtherStatus
    \/ FetchRequestTimeout
    \/ FetchException
    \/ FetchEmptyPage
    \/ FetchPageRaises
    \/ FetchShortPage
    \/ FetchPage
    \/ FetchPageCheckpoint
    \/ FetchCheckpointRaises
    \/ UnitEndEmpty
    \/ UnitEndFlush
    \/ UnitEndFatal
    \/ DeadlinePasses

Spec == Init /\ [][Next]_vars

\* ------------------------------------------------------------------------
\* One call of fetch_category_offers on its own, from its first line to its
\* return, over listings that end and one that never does.  Every iteration
\* of the page loop ends (the request has a timeout, the sleeps are finite)
\* and wall-clock time advances, hence the fairness conditions.
\* ------------------------------------------------------------------------
UnitScenarios == {"endless", "e2e", "raise", "nulltitle", "empty"}

InitUnit ==
    /\ AuxIdle
    /\ mode = "categoria"
    /\ max_pages \in {0, MaxPagesArg}
    /\ creds \in BOOLEAN
    /\ pc = "fetch"
    /\ exit_code = -1
    /\ expired = FALSE
    /\ category_count = 0
    /\ cat = 1
    /\ scenario \in UnitScenarios
    /\ page = 1
    /\ offers = <<>>
    /\ checkpoint_counter = 0
    /\ consecutive_errors = 0
    /\ local_filtered = ZeroStats
    /\ filtered_stats = ZeroStats
    /\ stop_reason = "none"
    /\ flushes = <<>>
    /\ last_upload = NoUpload
    /\ last_sleep = "none"
    /\ last_resp = "none"
    /\ last_page_len = -1
    /\ fail_streak = 0
    /\ last_req = NoRequest

\* One iteration of the page loop, or its exit.
LoopStep ==
    \/ FetchLoopTimeout
    \/ FetchMaxPages
    \/ Fetch404
    \/ FetchMalformed
    \/ Fetch429
    \/ FetchOtherStatus
    \/ FetchRequestTimeout
    \/ FetchException
    \/ FetchEmptyPage
    \/ FetchPageRaises
    \/ FetchShortPage
    \/ FetchPage
    \/ FetchPageCheckpoint
    \/ FetchCheckpointRaises

NextUnit == LoopStep \/ DeadlinePasses

SpecUnit ==
    /\ InitUnit
    /\ [][NextUnit]_vars
    /\ WF_vars(LoopStep)
    /\ WF_vars(DeadlinePasses)

\* ------------------------------------------------------------------------
\* is_test_offer on its own, over raw offers whose nested objects are present,
\* missing or null and whose texts are present, missing, null or empty
\* ------------------------------------------------------------------------
sDemolidora == <<"D", "E", "M", "O", "l", "i", "d", "o", "r", "a">>
sDeployDescription == <<"v", "i", "a", " ", "D", "E", "P", "L", "O", "Y">>

\* The values one nested object can have, given the texts its field can hold.
ObjectChoices(field, texts) ==
    { [tag |-> "obj"] @@ (field :> t) : t \in texts \cup {NoneT, AbsentT, <<>>} }
        \cup { [tag |-> t] @@ (field :> AbsentT) : t \in {"absent", "null"} }

ClassifierInputs ==
    { [Kept(1, 1) EXCEPT !.store = st,
                         !.seller = se @@ [city |-> sRuaXDashSP],
                         !.auction = au,
                         !.product = pr,
                         !.offerDescription = de] :
        st \in ObjectChoices("name", {sLoja}),
        se \in ObjectChoices("name", {sAcme, sVendedorDemoName, sDemolidora}),
        au \in ObjectChoices("auctioneer", {sJoao, sLeiloeiroDemoName}),
        pr \in ObjectChoices("shortDesc", {sCarro, sDeployTitle}),
        de \in ObjectChoices("offerDescription", {sDescricao, sDeployDescription}) }

InitClassify ==
    /\ CrawlIdle
    /\ client = NoClient
    /\ sink = EmptySink
    /\ cls_offer \in ClassifierInputs
    /\ cls_verdict = NoVerdict

\* is_test, reason = self.is_test_offer(offer)
Classify ==
    /\ cls_verdict = NoVerdict
    /\ cls_verdict' = is_test_offer(cls_offer)
    /\ UNCHANGED <<crawlVars, cls_offer, client, sink>>

NextClassify == Classify

SpecClassify == InitClassify /\ [][NextClassify]_vars

\* ------------------------------------------------------------------------
\* A SupabaseClient instance on its own: construction, then calls of its
\* methods in any order
\* ------------------------------------------------------------------------
\* The items of a call: n records, told apart by their position.
Items(n) == [i \in 1..n |-> i]

\* Lengths that fall on, just after and far from the batch boundaries.
ItemCounts(batch_size) ==
    {0, 1} \cup {k * batch_size + d : k \in 1..(MaxBatches - 1), d \in {0, 1}}

\* What the sink can answer to the POST of one batch: on the fast path a 200
\* with one of the bodies, an error status or an exception; on the table path
\* its body is not read.
Answers(rpc_available) ==
    IF rpc_available THEN BodyKinds \cup (BatchOutcomes \ {"ok"}) ELSE BatchOutcomes

AnswerOutcome(answer) == IF answer \in BodyKinds THEN "ok" ELSE answer

AnswerBody(answer) == IF answer \in BodyKinds THEN answer ELSE "none"

InitClient == CrawlIdle /\ AuxIdle

\* SupabaseClient(): ValueError without credentials, else the session is made
\* and _check_rpc_availability() run once.
ClientConstruct ==
    /\ client.state = "none"
    /\ \E has_creds \in BOOLEAN, probe \in ProbeOutcomes :
        client' =
            IF ~has_creds THEN [NoClient EXCEPT !.state = "ValueError"]
            ELSE LET c == cached_check_rpc_availability(
                              [NoClient EXCEPT !.state = "ready"], probe)
                 IN  [c EXCEPT !.probe = probe, !.first_mode = c.rpc_available]
    /\ UNCHANGED <<crawlVars, cls_offer, cls_verdict, sink>>

\* client._check_rpc_availability() called again on a built instance.
ClientCheckAgain ==
    /\ client.state = "ready"
    /\ ~client.busy
    /\ client.rechecks < MaxCalls
    /\ \E probe \in ProbeOutcomes :
        client' = [cached_check_rpc_availability(client, probe)
                       EXCEPT !.rechecks = @ + 1]
    /\ UNCHANGED <<crawlVars, cls_offer, cls_verdict, sink>>

\* The turn of the batch loop of the current call that posts batch k and
\* gets this answer; the call returns when the loop is over.
PostBatch(c, k, answer) ==
    LET items == Items(c.n)
        acc == [posts |-> c.posts, stats |-> c.stats]
        out == AnswerOutcome(answer)
        body == AnswerBody(answer)
        next == IF c.rpc_available THEN RpcIteration(items, out, body, k, acc)
                ELSE FallbackIteration(items, out, k, acc)
    IN  [c EXCEPT !.outs = Append(@, out), !.bodies = Append(@, body),
                  !.posts = next.posts, !.stats = next.stats,
                  !.busy = IF c.rpc_available THEN ~RpcLoopOver(items, k + 1, next)
                           ELSE ~FallbackLoopOver(items, k + 1, next)]

\* client.upsert_normalized(items), up to the answer to its first batch; a
\* call with no items returns at once.
ClientUpsert ==
    /\ client.state = "ready"
    /\ ~client.busy
    /\ client.calls < MaxCalls
    /\ \E n \in ItemCounts(IF client.rpc_available THEN RPC_BATCH_SIZE
                             ELSE FALLBACK_BATCH_SIZE) :
        LET c == [client EXCEPT !.calls = @ + 1, !.n = n, !.outs = <<>>,
                                !.bodies = <<>>, !.posts = <<>>,
                                !.stats = ZeroUpsertStats]
        IN  IF Items(n) = <<>> THEN client' = c
            ELSE \E answer \in Answers(client.rpc_available) :
                    client' = PostBatch(c, 1, answer)
    /\ UNCHANGED <<crawlVars, cls_offer, cls_verdict, sink>>

\* The next turn of the batch loop of the call in progress.
ClientNextBatch ==
    /\ client.state = "ready"
    /\ client.busy
    /\ \E answer \in Answers(client.rpc_available) :
        client' = PostBatch(client, Len(client.posts) + 1, answer)
    /\ UNCHANGED <<crawlVars, cls_offer, cls_verdict, sink>>

NextClient ==
    \/ ClientConstruct
    \/ ClientCheckAgain
    \/ ClientUpsert
    \/ ClientNextBatch

SpecClient == InitClient /\ [][NextClient]_vars

\* ------------------------------------------------------------------------
\* The same list submitted twice by one instance to a table that honours
\* insert-or-merge: a batch is stored whole or not at all
\* ------------------------------------------------------------------------
SinkAnswers == {"stored", "http_error", "exception"}

\* The external ids of batch k of the list the instance submits.
BatchIds(c, k) ==
    LET batch == Batch(Items(c.n),
                       IF c.rpc_available THEN RPC_BATCH_SIZE ELSE FALLBACK_BATCH_SIZE,
                       k)
    IN  {batch[i] : i \in DOMAIN batch}

\* What the client gets when the table stores a batch: from the upsert
\* function a 200 whose body counts the rows as new or as already there, from
\* the table endpoint with merge-duplicates a 201 without body.
SinkReply(s, ids, rpc_available, answer) ==
    IF answer # "stored" THEN answer
    ELSE IF ~rpc_available THEN "ok"
    ELSE IF ids \subseteq s.rows THEN "updated"
    ELSE "inserted"

SinkAfter(s, ids, answer) ==
    [s EXCEPT !.rows = IF answer = "stored" THEN @ \cup ids ELSE @,
              !.conflicts = Append(@, ids \subseteq s.rows)]

\* One POST of the call in progress, answered by the table.
SinkPost(c, s, k, answer) ==
    /\ client' = PostBatch(c, k, SinkReply(s, BatchIds(c, k), c.rpc_available, answer))
    /\ sink' = SinkAfter(s, BatchIds(c, k), answer)

\* client.upsert_normalized(items), first submission of the list.
SinkSubmit ==
    /\ client.state = "ready"
    /\ ~client.busy
    /\ client.calls = 0
    /\ \E n \in ItemCounts(IF client.rpc_available THEN RPC_BATCH_SIZE
                             ELSE FALLBACK_BATCH_SIZE) :
        LET c == [client EXCEPT !.calls = 1, !.n = n] IN
        IF Items(n) = <<>> THEN client' = c /\ sink' = sink
        ELSE \E answer \in SinkAnswers : SinkPost(c, sink, 1, answer)
    /\ UNCHANGED <<crawlVars, cls_offer, cls_verdict>>

\* client.upsert_normalized(items) again, with the same list.
SinkResubmit ==
    /\ client.state = "ready"
    /\ ~client.busy
    /\ client.calls = 1
    /\ LET c == [client EXCEPT !.calls = 2, !.outs = <<>>, !.bodies = <<>>,
                               !.posts = <<>>, !.stats = ZeroUpsertStats]
           s == [sink EXCEPT !.conflicts = <<>>,
                             !.first = [stats |-> client.stats,
                                        clean |-> \A k \in DOMAIN client.outs :
                                                      client.outs[k] = "ok"]]
       IN  IF Items(c.n) = <<>> THEN client' = c /\ sink' = s
           ELSE \E answer \in SinkAnswers : SinkPost(c, s, 1, answer)
    /\ UNCHANGED <<crawlVars, cls_offer, cls_verdict>>

\* The next turn of the batch loop of the submission in progress.
SinkNextBatch ==
    /\ client.state = "ready"
    /\ client.busy
    /\ \E answer \in SinkAnswers :
        SinkPost(client, sink, Len(client.posts) + 1, answer)
    /\ UNCHANGED <<crawlVars, cls_offer, cls_verdict>>

NextSink ==
    \/ ClientConstruct
    \/ SinkSubmit
    \/ SinkResubmit
    \/ SinkNextBatch

SpecSink == InitClient /\ [][NextSink]_vars

TypeOK ==
    /\ pc \in {"main", "scrape_all", "fetch", "unit_end", "done"}
    /\ exit_code \in {-1, 0, 1}
    /\ consecutive_errors \in 0..max_retries
    /\ category_count \in 0..Len(Categories)

\* ------------------------------------------------------------------------
\* Properties
\* ------------------------------------------------------------------------
CheckpointFlushes == {i \in DOMAIN flushes : flushes[i].kind = "ckpt"}
FinalFlushes == {i \in DOMAIN flushes : flushes[i].kind = "final"}

\* A unit has been crawled and the code after its page loop has run.
UnitOver == cat # 0 /\ pc \in {"scrape_all", "done"}

\* C1: a failure of the raw-archive step (insert_raw) does not keep the
\* canonical upsert (insert_normalized) of the same batch from being attempted.
C1_RawFailureDoesNotBlockUpsert ==
    last_upload.raw = "raise" => last_upload.norm_attempted

\* C2: an accepted page with fewer results than the requested page size (100)
\* is the last page of its unit: the page loop never goes on after one.
C2_ShortPageIsLast ==
    (pc = "fetch" /\ last_resp = "ok") => last_page_len >= PAGE_SIZE

\* C3: when a unit is over, however it ended, everything it accumulated has
\* been handed to upload_to_supabase by exactly one final flush.
C3_FinalFlushOfEveryUnit ==
    (UnitOver /\ offers # <<>>) =>
        /\ Cardinality(FinalFlushes) = 1
        /\ \A i \in FinalFlushes : flushes[i].ids = ExtIds(offers)

\* C4: every failed request counts as one transient error, an accepted page
\* resets the count, the unit is abandoned exactly when the count reaches
\* max_retries, and so no unit has more than max_retries failed requests in a
\* row.
C4_RetryBudget ==
    /\ (pc = "fetch" => consecutive_errors = fail_streak)
    /\ (pc = "fetch" => consecutive_errors < max_retries)
    /\ fail_streak <= max_retries
    /\ (stop_reason = "abandoned") <=> (consecutive_errors = max_retries)
    /\ (stop_reason = "abandoned") => (fail_streak = max_retries)

\* C4 witness: a unit abandoned after three failures in a row that followed an
\* accepted page.
C4_Witness ==
    /\ stop_reason = "abandoned"
    /\ page > 1
    /\ fail_streak = max_retries
    /\ last_resp = "timeout"

\* C5: a full run whose deadline has not passed ends only after every category
\* was started, whatever happened in the earlier ones.
C5_EveryCategoryAttempted ==
    (pc = "done" /\ mode = "full_update" /\ ~expired) =>
        category_count = Len(Categories)

\* C6: once the deadline has passed no page request is issued any more, for
\* this or a later category; noticing the deadline neither counts as a
\* transient error nor makes the process exit with a failure status.
C6_DeadlineStopsGracefully ==
    [][ /\ ~last_req'.late
        /\ (expired => /\ last_req' = last_req
                       /\ consecutive_errors' = consecutive_errors
                       /\ fail_streak' = fail_streak
                       /\ category_count' = category_count)
        /\ (expired /\ pc = "fetch" =>
                pc' = "unit_end" /\ stop_reason' = "timeout" /\ exit_code' = -1)
        /\ (expired /\ pc = "scrape_all" => pc' = "done" /\ exit_code' = 0)
      ]_vars

\* C6 witness: a full run cut short by the deadline in its first category,
\* with offers collected, that has exited with status 0.
C6_Witness ==
    /\ expired
    /\ pc = "done"
    /\ exit_code = 0
    /\ mode = "full_update"
    /\ stop_reason = "timeout"
    /\ category_count < Len(Categories)
    /\ offers # <<>>
    /\ consecutive_errors > 0

\* C7: a 404, or a 200 with an empty results list, ends the unit's pagination
\* at once: the error count and the accumulated offers stay as they are, and
\* no request of the unit follows.
C7_EndOfDataEndsUnit ==
    [][ /\ (pc = "fetch" /\ last_resp' \in {"404", "empty"} =>
                /\ pc' = "unit_end"
                /\ stop_reason' = last_resp'
                /\ consecutive_errors' = consecutive_errors
                /\ offers' = offers)
        /\ (stop_reason \in {"404", "empty"} /\ cat' = cat /\ pc' # "fetch" =>
                /\ last_req' = last_req
                /\ offers' = offers)
        /\ (stop_reason \in {"404", "empty"} /\ pc' = "fetch" => cat' # cat \/ page' = 1)
      ]_vars

\* C7 witness: a unit ended by a 404 that came after two failures, with offers
\* collected before.
C7_Witness ==
    /\ stop_reason = "404"
    /\ pc = "unit_end"
    /\ consecutive_errors = 2
    /\ offers # <<>>

\* C8: a 429 makes the loop sleep and count one transient error, and the
\* request that follows it in the unit asks for the same page number.
C8_RateLimitRetriesSamePage ==
    [][ /\ (pc = "fetch" /\ last_resp' = "429" /\ fail_streak' = fail_streak + 1 =>
                /\ last_sleep' = "rate_limit"
                /\ consecutive_errors' = consecutive_errors + 1
                /\ page' = page
                /\ offers' = offers
                /\ pc' = IF consecutive_errors + 1 < max_retries
                         THEN "fetch" ELSE "unit_end")
        /\ (pc = "fetch" /\ last_resp = "429" /\ last_req' # last_req =>
                last_req'.page = last_req.page)
        /\ (pc' = "fetch" /\ last_resp' = "429" => page' = last_req'.page)
      ]_vars

\* C8 witness: page 2 was rate limited and the loop is about to request page
\* 2 again.
C8_Witness ==
    /\ pc = "fetch"
    /\ last_resp = "429"
    /\ last_sleep = "rate_limit"
    /\ consecutive_errors = 1
    /\ page = 2
    /\ last_req.page = 2

\* C9: whenever the next page is about to be requested, the checkpoint flushes
\* of the unit number floor(accumulated kept offers / SAVE_CHECKPOINT_EVERY).
C9_CheckpointCadence ==
    Requesting =>
        Cardinality(CheckpointFlushes) = ListLen(offers) \div SAVE_CHECKPOINT_EVERY

\* C10: the flushes of a unit are monotonic: each checkpoint's external ids
\* include those of the checkpoint before it, and the final flush's include
\* those of every checkpoint.
C10_CheckpointsMonotonic ==
    \A i, j \in DOMAIN flushes : i < j => flushes[i].ids \subseteq flushes[j].ids

\* C10 witness: a unit with two checkpoints and a final flush, each larger than
\* the one before.
C10_Witness ==
    /\ Len(flushes) = 3
    /\ flushes[1].kind = "ckpt" /\ flushes[2].kind = "ckpt" /\ flushes[3].kind = "final"
    /\ flushes[1].ids # flushes[2].ids
    /\ flushes[2].ids # flushes[3].ids

\* The position in the accumulated list of the last raw offer with this
\* external id.
LastSeen(list, external_id) ==
    CHOOSE g \in DOMAIN list :
        /\ ExternalId(list[g].o.id) = external_id
        /\ \A h \in DOMAIN list : ExternalId(list[h].o.id) = external_id => h <= g

\* C11: the record set a checkpoint or a final flush hands to
\* upload_to_supabase holds each external_id at most once, holds every
\* external_id of the accumulated offers, and the record kept for an id is the
\* one made from the last accumulated offer with that id.
C11_OneRecordPerIdLastWins ==
    last_upload.called =>
        LET items == last_upload.items IN
        /\ \A i, j \in DOMAIN items :
              items[i].external_id = items[j].external_id => i = j
        /\ RecIds(items) = ExtIds(offers)
        /\ \A i \in DOMAIN items :
              items[i] = normalize_to_schema(
                             offers[LastSeen(offers, items[i].external_id)].o,
                             Categories[cat].slug)

\* C11 witness: a flush of a list in which two offers with the same id differ,
\* the later one being the one sent.
C11_Witness ==
    /\ last_upload.called
    /\ \E g, h \in DOMAIN offers :
          /\ g < h
          /\ offers[g].o.id = offers[h].o.id
          /\ offers[g].o # offers[h].o
          /\ h = LastSeen(offers, ExternalId(offers[h].o.id))
          /\ \E i \in DOMAIN last_upload.items :
                last_upload.items[i] =
                    normalize_to_schema(offers[h].o, Categories[cat].slug)

\* Every record upload_to_supabase was given or posted in the latest step.
Submitted ==
    {last_upload.items[i] : i \in DOMAIN last_upload.items}
        \cup UNION {{last_upload.posts[k].items[i] : i \in DOMAIN last_upload.posts[k].items} :
                       k \in DOMAIN last_upload.posts}

\* C12: no record handed to the sink has a null or empty external_id, a null
\* link or a null store_name, whatever pages were fetched.
C12_SubmittedRecordsIdentified ==
    \A r \in Submitted :
        /\ r.external_id # NoneT /\ r.external_id # <<>>
        /\ r.external_id[1] = "superbid" /\ r.external_id[2] # ""
        /\ r.link # NoneT
        /\ r.store_name # NoneT /\ r.store_name # AbsentT

\* C12 witness: records were posted for a unit whose pages held an offer
\* without a store name and nothing else against it.
C12_Witness ==
    /\ last_upload.posts # <<>>
    /\ Submitted # {}
    /\ \E p \in 1..page : \E g \in DOMAIN Listing(scenario, p) :
          /\ Listing(scenario, p)[g].o = PlainNoStoreOffer(Listing(scenario, p)[g].o.id)
          /\ is_test_offer(Listing(scenario, p)[g].o) = Verdict(FALSE, TRUE, "no_store")

sSP == <<"S", "P">>

\* C13: the state of every record handed to the sink is null or one of the 27
\* region codes; a seller city "Rua X - SP" or "Rua X/SP" gives state "SP",
\* "Rua X" and "Rua X - XX" give null.
C13_StateIsRegionCode ==
    \A r \in Submitted :
        /\ r.state = NoneT \/ r.state \in UFS
        /\ r.address = sRuaXDashSP => r.state = sSP
        /\ r.address = sRuaXSlashSP => r.state = sSP
        /\ r.address = sRuaX => r.state = NoneT
        /\ r.address = sRuaXDashXX => r.state = NoneT

\* The text of a nested field read null-safely: the empty string when the
\* object or the field is missing or null.
SafeText(obj, field) ==
    IF obj.tag = "obj" /\ IsStr(obj[field]) THEN obj[field] ELSE <<>>

\* The verdict of the rules applied in the order no_store, demo_seller,
\* demo_auctioneer, deploy_text to the null-safe texts.
FirstMatchingRule(offer) ==
    IF SafeText(offer.store, "name") = <<>>
        THEN Verdict(FALSE, TRUE, "no_store")
    ELSE IF Contains(sDemo, Lower(SafeText(offer.seller, "name")))
        THEN Verdict(FALSE, TRUE, "demo_seller")
    ELSE IF Contains(sDemo, Lower(SafeText(offer.auction, "auctioneer")))
        THEN Verdict(FALSE, TRUE, "demo_auctioneer")
    ELSE IF \/ Contains(sDeploy, Lower(SafeText(offer.product, "shortDesc")))
            \/ Contains(sDeploy,
                        Lower(SafeText(offer.offerDescription, "offerDescription")))
        THEN Verdict(FALSE, TRUE, "deploy_text")
    ELSE Verdict(FALSE, FALSE, "")

\* C14: is_test_offer returns the reason of the first rule that matches, in
\* the order no_store, demo_seller, demo_auctioneer, deploy_text, and keeps
\* the offer only if none matches; an offer without a store name is no_store
\* whatever its other fields are.
C14_FirstMatchingRuleWins ==
    cls_verdict # NoVerdict =>
        /\ cls_verdict = FirstMatchingRule(cls_offer)
        /\ SafeText(cls_offer.store, "name") = <<>> =>
              cls_verdict = Verdict(FALSE, TRUE, "no_store")

\* A nested object of the offer is missing or null.
HasMissingObject(offer) ==
    \E obj \in {offer.store, offer.seller, offer.auction, offer.product,
                 offer.offerDescription} : obj.tag # "obj"

\* C15: for an offer with a missing or null nested object is_test_offer does
\* not raise, reads the missing text as empty, and answers demo_seller only
\* if the seller name it read contains "demo".
C15_ClassifierNullSafe ==
    (cls_verdict # NoVerdict /\ HasMissingObject(cls_offer)) =>
        /\ ~cls_verdict.raised
        /\ cls_verdict.is_test = FirstMatchingRule(cls_offer).is_test
        /\ cls_verdict.reason = "demo_seller" =>
              Contains(sDemo, Lower(SafeText(cls_offer.seller, "name")))

\* C16: a raw offer without id, link data, store name or title never makes
\* the pipeline raise: no exception leaves normalize_to_schema inside a
\* checkpoint or the final flush, and no record without an identity is handed
\* to the sink.
C16_ValidationNeverRaises ==
    /\ last_resp # "checkpoint_exception"
    /\ exit_code # 1
    /\ \A r \in Submitted : r.external_id # ExternalId(NoId)

\* C17: when SUPABASE_URL or SUPABASE_SERVICE_ROLE_KEY is unset the process
\* stops before crawling: no page request is ever issued.
C17_NoRequestWithoutCredentials ==
    ~creds => (last_req = NoRequest /\ last_resp = "none" /\ offers = <<>>)

\* C18: an instance issues the capability probe exactly once, when it is
\* built, and the mode decided then never changes: every later call of
\* upsert_normalized posts on the path of that mode and no later call probes.
C18_ProbedOnceModeFixed ==
    /\ client.state # "ready" => client.probes = 0
    /\ client.state = "ready" =>
          /\ client.probes = 1
          /\ client.probed
          /\ client.rpc_available = client.first_mode
          /\ \A k \in DOMAIN client.posts :
                client.posts[k].path = IF client.first_mode THEN "rpc" ELSE "table"

\* C18 witness: a built instance on which _check_rpc_availability was called
\* again and upsert_normalized was called twice, the second call posting.
C18_Witness ==
    /\ client.state = "ready"
    /\ ~client.busy
    /\ client.rechecks >= 1
    /\ client.calls = 2
    /\ client.posts # <<>>

\* C19: a probe that fails, by its status or by an exception, does not stop
\* the construction; the capability counts as absent and every batch of that
\* instance goes through the table path in batches of at most 200.
C19_FailedProbeMeansDegraded ==
    client.probe \in {"unavailable", "exception"} =>
        /\ client.state = "ready"
        /\ ~client.rpc_available
        /\ (client.calls > 0 /\ client.n > 0) => client.posts # <<>>
        /\ (client.calls > 0 /\ ~client.busy) =>
              Len(client.posts) = NumBatches(client.n, FALLBACK_BATCH_SIZE)
        /\ \A k \in DOMAIN client.posts :
              /\ client.posts[k].path = "table"
              /\ Len(client.posts[k].items) <= FALLBACK_BATCH_SIZE

\* C19 witness: the probe of the constructor raised and a later upsert posted
\* more than one batch.
C19_Witness ==
    /\ client.probe = "exception"
    /\ client.calls > 0
    /\ ~client.busy
    /\ Len(client.posts) > 1

RECURSIVE SumErrors(_, _)
SumErrors(c, k) ==
    IF k = 0 THEN 0
    ELSE SumErrors(c, k - 1)
            + (IF c.outs[k] = "ok"
                   THEN RpcBody(c.bodies[k], Len(c.posts[k].items)).errors
                   ELSE Len(c.posts[k].items))

\* C20: on the fast path n records go out in ceil(n/500) batches of at most
\* 500, each record in exactly one of them and in order; every batch is
\* posted whatever the earlier ones got, and a batch that is not answered 200
\* adds exactly its size to errors.
C20_FastPathBatches ==
    (client.state = "ready" /\ client.rpc_available /\ client.calls > 0) =>
        LET b == Len(client.posts) IN
        /\ ~client.busy => b * RPC_BATCH_SIZE >= client.n
        /\ b > 0 => (b - 1) * RPC_BATCH_SIZE < client.n
        /\ \A k \in 1..b :
              /\ client.posts[k].path = "rpc"
              /\ client.posts[k].outcome = client.outs[k]
              /\ Len(client.posts[k].items) \in 1..RPC_BATCH_SIZE
              /\ \A i \in DOMAIN client.posts[k].items :
                    client.posts[k].items[i] = (k - 1) * RPC_BATCH_SIZE + i
              /\ k < b => Len(client.posts[k].items) = RPC_BATCH_SIZE
        /\ client.stats.errors = SumErrors(client, b)

\* C20 witness: three batches on the fast path, the first answered with an
\* error status, the second accepted, the third lost to an exception.
C20_Witness ==
    /\ client.state = "ready" /\ client.rpc_available
    /\ ~client.busy
    /\ Len(client.posts) = 3
    /\ client.outs[1] = "http_error"
    /\ client.outs[2] = "ok"
    /\ client.outs[3] = "exception"
    /\ client.stats.errors = Len(client.posts[1].items) + Len(client.posts[3].items)

RECURSIVE SumSizes(_, _)
SumSizes(posts, ks) ==
    IF ks = {} THEN 0
    ELSE LET k == CHOOSE h \in ks : TRUE
         IN  Len(posts[k].items) + SumSizes(posts, ks \ {k})

\* C21: on the table path the batches hold at most 200 records; a batch whose
\* records were all stored already and that the table merges is counted as
\* updated, not as inserted and not as errors, and a batch answered with
\* another status or lost to an exception adds its size to errors.
C21_DegradedConflictsAreUpdates ==
    (client.state = "ready" /\ ~client.rpc_available /\ ~client.busy) =>
        LET ks == DOMAIN client.posts
            merged == {k \in ks : client.outs[k] = "ok" /\ sink.conflicts[k]}
            created == {k \in ks : client.outs[k] = "ok" /\ ~sink.conflicts[k]}
            failed == {k \in ks : client.outs[k] # "ok"}
        IN  /\ \A k \in ks : /\ client.posts[k].path = "table"
                              /\ Len(client.posts[k].items) <= FALLBACK_BATCH_SIZE
            /\ client.stats.updated = SumSizes(client.posts, merged)
            /\ client.stats.inserted = SumSizes(client.posts, created)
            /\ client.stats.errors = SumSizes(client.posts, failed)

\* C22: when the same list is submitted twice and the table stores every
\* batch of both submissions, the second submission reports inserted = 0 and
\* the two submissions report no errors, on the fast and on the table path.
C22_ResubmissionInsertsNothing ==
    (/\ client.state = "ready" /\ client.calls = 2 /\ ~client.busy
     /\ sink.first.clean
     /\ \A k \in DOMAIN client.outs : client.outs[k] = "ok") =>
        /\ client.stats.inserted = 0
        /\ sink.first.stats.errors + client.stats.errors = 0

AcceptsPage ==
    FetchPage \/ FetchShortPage \/ FetchPageCheckpoint \/ FetchCheckpointRaises

\* Records of a page the classifier calls synthetic.
RECURSIVE SyntheticCount(_)
SyntheticCount(groups) ==
    IF groups = <<>> THEN 0
    ELSE (IF is_test_offer(Head(groups).o).is_test THEN Head(groups).n ELSE 0)
             + SyntheticCount(Tail(groups))

\* Records of a page the classifier keeps and whose auction has ended.
RECURSIVE EndedCount(_)
EndedCount(groups) ==
    IF groups = <<>> THEN 0
    ELSE (IF ~is_test_offer(Head(groups).o).is_test /\ Head(groups).o.endDate = "past"
              THEN Head(groups).n ELSE 0)
             + EndedCount(Tail(groups))

\* C24 as stated: when a page is accepted, every record of it that the
\* classifier does not call synthetic is appended to the unit's list, so the
\* list grows by the page's length minus its synthetic records.
C24_KeptRecordsAccumulated ==
    [][AcceptsPage =>
          ListLen(offers') = ListLen(offers) + ListLen(PageOffers)
                                 - SyntheticCount(PageOffers)]_vars

\* C24 amended: when a page is accepted, every record of it that the
\* classifier keeps and whose auction has not ended is appended to the unit's
\* list; the records not appended are the synthetic ones and the kept ones
\* whose endDate lies in the past.
C24_KeptActiveRecordsAccumulated ==
    [][AcceptsPage =>
          ListLen(offers') = ListLen(offers) + ListLen(PageOffers)
                                 - SyntheticCount(PageOffers)
                                 - EndedCount(PageOffers)]_vars

\* C24 witness: page 2 of the listing with 30 running and 20 ended auctions
\* was accepted after page 1 (49 kept of 50), and 30 offers were appended.
C24_Witness ==
    /\ scenario = "mid" /\ last_resp = "ok"
    /\ last_req.page = 2 /\ last_page_len = 50
    /\ EndedCount(Listing("mid", 2)) = 20
    /\ ListLen(offers) = 49 + 30

\* The sleeps the page loop can end an iteration with.
PageSleeps == {"page_delay", "rate_limit", "timeout_wait", "error_wait"}

\* The page loop is about to issue a request after an earlier one of the unit.
RequestFollowsRequest == Requesting /\ last_req # NoRequest

\* scrape_all is about to start a unit after an earlier one.
UnitFollowsUnit ==
    /\ pc = "scrape_all" /\ ~check_timeout
    /\ 0 < category_count /\ category_count < Len(Categories)

\* C25: when a page request follows another request of the same unit, the
\* iteration of the earlier request ended with a sleep, whatever that request
\* got (a page, a malformed body, a 429, another status, a timeout); and when
\* a unit follows another unit, the category delay was taken in between.
C25_DelayBetweenRequests ==
    /\ RequestFollowsRequest => last_sleep \in PageSleeps
    /\ UnitFollowsUnit => last_sleep = "category_delay"

\* The offers pages 1..p of a listing contribute when each is appended once.
RECURSIVE ActiveUpTo(_, _)
ActiveUpTo(scn, p) ==
    IF p = 0 THEN 0
    ELSE ListLen(FilterPage(Listing(scn, p)).active) + ActiveUpTo(scn, p - 1)

\* C26: the kept offers of a page are appended to the unit's list at most
\* once, also when the page is requested again after an error: the list never
\* holds more than one copy of the kept offers of the pages requested so far,
\* in particular not after save_checkpoint raised once the page was appended.
C26_PageAppendedAtMostOnce ==
    pc \in {"fetch", "unit_end"} => ListLen(offers) <= ActiveUpTo(scenario, page)

\* The records of pages 1..p of a listing that the classifier reaches and
\* calls synthetic for reason r, each (page, record) pair counted once.
RECURSIVE ClassifiedUpTo(_, _, _)
ClassifiedUpTo(scn, p, r) ==
    IF p = 0 THEN 0
    ELSE FilterPage(Listing(scn, p)).filt[r] + ClassifiedUpTo(scn, p - 1, r)

\* C27: the filter statistics count each synthetic record of each page once:
\* for every reason the unit's counter holds the (page, record) pairs
\* classified with it on the pages accepted so far, and of the page being
\* requested at most those the classifier has reached on it, also after that
\* page was requested again because processing it raised; in a run of one
\* unit filtered_stats is that counter.
C27_FilterStatsCountOnce ==
    pc \in {"fetch", "unit_end"} =>
        \A r \in Reasons :
            /\ local_filtered[r] >= ClassifiedUpTo(scenario, page - 1, r)
            /\ local_filtered[r] <= ClassifiedUpTo(scenario, page, r)
            /\ mode = "categoria" => filtered_stats[r] = local_filtered[r]

\* C28: on the table path, whatever each batch is answered, the counters of a
\* call add up to the number of records submitted (and, while the call runs,
\* to the records posted so far); the batches are consecutive slices of the
\* list in submission order, so every record is in exactly one batch.
C28_DegradedCountsAddUp ==
    (client.state = "ready" /\ ~client.rpc_available /\ client.calls > 0) =>
        LET b == Len(client.posts)
            total == client.stats.inserted + client.stats.updated
                         + client.stats.errors
        IN  /\ total = SumSizes(client.posts, 1..b)
            /\ ~client.busy => total = client.n
            /\ ~client.busy => b * FALLBACK_BATCH_SIZE >= client.n
            /\ b > 0 => (b - 1) * FALLBACK_BATCH_SIZE < client.n
            /\ \A k \in 1..b :
                  /\ client.posts[k].path = "table"
                  /\ Len(client.posts[k].items) \in 1..FALLBACK_BATCH_SIZE
                  /\ k < b => Len(client.posts[k].items) = FALLBACK_BATCH_SIZE
                  /\ \A i \in DOMAIN client.posts[k].items :
                        client.posts[k].items[i] = (k - 1) * FALLBACK_BATCH_SIZE + i

\* C28 witness: a call on the table path with 401 records has ended; its
\* three batches were stored, answered with an error status and lost to an
\* exception.
C28_Witness ==
    /\ client.state = "ready" /\ ~client.rpc_available /\ ~client.busy
    /\ client.n = 2 * FALLBACK_BATCH_SIZE + 1
    /\ client.outs = <<"ok", "http_error", "exception">>
    /\ client.stats = [inserted |-> 200, updated |-> 0, errors |-> 201]

\* C29: every call of fetch_category_offers returns, whatever the source
\* answers (also when it answers every page number with a full page, or keeps
\* alternating errors and pages), given that time advances past the deadline;
\* and with max_pages = m no page beyond m is requested.
C29_UnitTerminates ==
    /\ <>(pc = "unit_end")
    /\ [](max_pages # 0 => last_req.page <= max_pages)

\* C29 witness: the source never ran out of full pages, no page limit was
\* given, and the call returned because the deadline had passed.
C29_Witness ==
    /\ scenario = "endless" /\ max_pages = 0
    /\ pc = "unit_end" /\ stop_reason = "timeout"
    /\ last_req.page > 1

====
